---- MODULE Spec2Model ----
(***************************************************************************)
(* The conversion pipeline of book-reader: ConversionService and its       *)
(* progress ledger (src/src/book_reader/services/conversion_service.py).   *)
(*                                                                         *)
(* One ConversionService converts the document of book id TheBook with a   *)
(* ledger file that it shares with the book id OtherBook.  Each call of    *)
(* convert_pdf_to_audiobook is given a freshly created document handle, as *)
(* the command line does (PDFRepository.find_by_filename).                 *)
(***************************************************************************)
EXTENDS Integers, Sequences, FiniteSets, TLC

\* ------------------------------------------------------------------ bounds
\* Chunks of the last page of the document.
LastPageChunks == 2
\* Largest batch_size a caller passes.
MaxBatch == 3
\* What os.cpu_count() reports on the machine.
CpuCount == 2
\* The batch_size values callers pass: serial, and two pool sizes.
BatchSizes == {1, 2, MaxBatch}
\* Number of convert calls in one behaviour.
MaxRuns == 2

\* ------------------------------------------------------------- the document
TheBook == "a"
OtherBook == "b"
Books == {TheBook, OtherBook}

\* Chunks each page of the document yields, in page order: page 1 has no
\* text, page 2 one chunk, page 3 LastPageChunks chunks.
PageChunks == <<0, 1, LastPageChunks>>

RECURSIVE SumTo(_, _)
SumTo(s, k) == IF k = 0 THEN 0 ELSE s[k] + SumTo(s, k - 1)

Min(a, b) == IF a < b THEN a ELSE b

\* PDFRepository.load_pages: the number of pages loaded.  max_pages = 0
\* stands for None (and 0 itself is falsy): every page is loaded.  A loader
\* error is caught inside load_pages and leaves the document without pages.
LoadPages(max_pages, loader_ok) ==
    IF ~loader_ok THEN 0
    ELSE IF max_pages # 0 THEN Min(max_pages, Len(PageChunks))
    ELSE Len(PageChunks)

\* _prepare_text_chunks and _prepare_chunks_for_conversion: the chunks of
\* the loaded pages, flattened in page order, carry the indices 0..n-1.
NumChunks(npages) == SumTo(PageChunks, npages)
AllChunkIndices(npages) ==
    [k \in 1..NumChunks(npages) |-> k - 1]

MaxIndex == NumChunks(Len(PageChunks)) - 1
Indices == 0..MaxIndex

\* --------------------------------------------------------------- the ledger
\* The value stored under one key of the ledger object: absent, a list of
\* integers, or anything else (a string, a number, a list holding a float).
Missing == [kind |-> "missing", list |-> <<>>]
Bad == [kind |-> "bad", list |-> <<>>]
Ints(l) == [kind |-> "ints", list |-> l]

\* The ledger file: absent, zero bytes, bytes that are not JSON, JSON that
\* is not an object, or a JSON object.  readable is the read permission.
NoEntries == [b \in Books |-> Missing]
File(kind, readable, entries) ==
    [kind |-> kind, readable |-> readable, entries |-> entries]
AbsentFile == File("absent", TRUE, NoEntries)

SeqToSet(s) == {s[k] : k \in 1..Len(s)}

RECURSIVE SortedSeq(_)
\* sorted(): the members of S in ascending order.
SortedSeq(S) ==
    IF S = {} THEN <<>>
    ELSE LET m == CHOOSE x \in S : \A y \in S : x <= y
         IN <<m>> \o SortedSeq(S \ {m})

RECURSIVE Insert(_, _)
\* l is ascending: l with x put before its first member greater than x.
Insert(l, x) ==
    IF l = <<>> THEN <<x>>
    ELSE IF x < Head(l) THEN <<x>> \o l
    ELSE <<Head(l)>> \o Insert(Tail(l), x)

RECURSIVE Sorted(_)
\* sorted() of a list: every item of l, repeated ones as often as l has
\* them, in ascending order.
Sorted(l) ==
    IF l = <<>> THEN <<>>
    ELSE Insert(Sorted(Tail(l)), Head(l))

\* list() of a set: each member once.  The order is the set's iteration
\* order; the only reader of the list sorts it.
ListOfSet(S) == SortedSeq(S)

\* The index set the file records for a book id (what a reader that
\* tolerates every malformation would take from it).
Persisted(f, book) ==
    IF f.kind = "object" /\ f.entries[book].kind = "ints"
    THEN SeqToSet(f.entries[book].list)
    ELSE {}

\* ConversionService._load_progress.
LoadProgress(f, book) ==
    IF f.kind = "absent" THEN [raised |-> FALSE, list |-> <<>>]
    \* open() raises PermissionError, which the except clause does not name
    ELSE IF ~f.readable THEN [raised |-> TRUE, list |-> <<>>]
    \* json.load raises JSONDecodeError: caught
    ELSE IF f.kind \in {"empty", "invalid"} THEN [raised |-> FALSE, list |-> <<>>]
    \* progress_data.get raises AttributeError, which is not caught
    ELSE IF f.kind = "nonobject" THEN [raised |-> TRUE, list |-> <<>>]
    ELSE IF f.entries[book].kind = "ints"
         THEN [raised |-> FALSE, list |-> f.entries[book].list]
         ELSE [raised |-> FALSE, list |-> <<>>]

WriteOutcomes == {"ok", "open_fails", "write_fails"}

\* ConversionService._save_progress, with the outcome w of writing the file.
SaveProgress(f, book, completed_indices, w) ==
    LET progress ==
            IF f.kind = "object" /\ f.readable THEN f.entries ELSE NoEntries
        updated == [progress EXCEPT ![book] = Ints(Sorted(completed_indices))]
        readable == IF f.kind = "absent" THEN TRUE ELSE f.readable
    IN  \* json.loads gave a list, number or string: item assignment raises
        \* TypeError outside every try block, before the file is opened
        IF f.kind = "nonobject" /\ f.readable
        THEN [raised |-> TRUE, file |-> f]
        \* open(..., "w") raises: IOError is caught, the file is as before
        ELSE IF w = "open_fails" THEN [raised |-> FALSE, file |-> f]
        \* open(..., "w") truncated the file and json.dump or the closing
        \* flush raises: IOError is caught, a partial file stays
        ELSE IF w = "write_fails"
        THEN [raised |-> FALSE, file |-> File("invalid", readable, NoEntries)]
        ELSE [raised |-> FALSE, file |-> File("object", readable, updated)]

\* _save_progress, lines 322-343: what the save takes for the existing
\* progress.  A missing, unreadable, empty or unparsable file gives {}; JSON
\* that is not an object is taken as it is.
ReadExisting(f) ==
    IF f.kind = "object" /\ f.readable
    THEN [kind |-> "object", entries |-> f.entries]
    ELSE IF f.kind = "nonobject" /\ f.readable
    THEN [kind |-> "nonobject", entries |-> NoEntries]
    ELSE [kind |-> "object", entries |-> NoEntries]

\* _save_progress, lines 345-352: the entry of the book is set in the
\* progress read before and the whole of it is written over the file f,
\* with the outcome w of writing.
UpdateAndWrite(f, progress, book, completed_indices, w) ==
    LET updated == [progress.entries EXCEPT
                       ![book] = Ints(Sorted(completed_indices))]
        readable == IF f.kind = "absent" THEN TRUE ELSE f.readable
    IN  IF progress.kind = "nonobject" THEN [raised |-> TRUE, file |-> f]
        ELSE IF w = "open_fails" THEN [raised |-> FALSE, file |-> f]
        ELSE IF w = "write_fails"
        THEN [raised |-> FALSE, file |-> File("invalid", readable, NoEntries)]
        ELSE [raised |-> FALSE, file |-> File("object", readable, updated)]

\* ------------------------------------------------------------ the adapter
\* What TTSService.synthesize does for one chunk.
Outcomes == {"artifact", "raised", "nothing"}

\* _process_chunk_worker: the artifact path, or None when synthesize raised
\* or returned nothing.
WorkerResult(outcome) == IF outcome = "artifact" THEN "path" ELSE "None"
Finished(r) == r \in {"path", "None"}

\* The name synthesize gives the audio file of a chunk: a file name is a
\* sequence of strings, the digits one character each.
DigitChars == <<"0", "1", "2", "3", "4", "5", "6", "7", "8", "9">>

RECURSIVE Decimal(_)
\* The decimal digits of n >= 0, as the format conversion d writes them.
Decimal(n) ==
    IF n < 10 THEN <<DigitChars[n + 1]>>
    ELSE Decimal(n \div 10) \o <<DigitChars[(n % 10) + 1]>>

\* The minimum field width of the format specification 03d.
PadWidth == 3

\* Faulty variant: the field is exactly width characters, the leading
\* digits of a longer number are cut.
ZeroPadFixed(digits, width) ==
    [k \in 1..width |->
        IF k <= width - Len(digits) THEN "0"
        ELSE digits[Len(digits) - width + k]]

RECURSIVE ZeroPad(_, _)
\* The fill of the format specification 03d: zeros in front up to the
\* width, nothing for a number that fills it.
ZeroPad(digits, width) ==
    IF Len(digits) >= width THEN digits
    ELSE ZeroPad(<<"0">> \o digits, width)

\* f"chunk_{chunk_index + 1:03d}.mp3"
ChunkFileName(chunk_index) ==
    <<"chunk_">> \o ZeroPad(Decimal(chunk_index + 1), PadWidth) \o <<".mp3">>

\* file_path = output_path / f"chunk_{chunk_index + 1:03d}.mp3"
ArtifactPath(output_path, chunk_index) ==
    [dir |-> output_path, name |-> ChunkFileName(chunk_index)]

\* ------------------------------------------------------------ the segmenter
\* TextProcessor.split_into_chunks (src/src/book_reader/utils/
\* text_processing.py).  A text is a sequence of one-character strings.
Space == " "
Tab == "\t"
\* What str.strip() and the regex class \s take for whitespace.
Whitespace == {Space, Tab}
\* The characters of [.!?].
Terminators == {".", "!", "?"}
\* The characters of the texts that are segmented here: a letter, the
\* sentence terminators, the space and one more whitespace character.
Alphabet == {"a", ".", "!", "?", Space, Tab}
\* Longest text.
MaxTextLen == 5
\* Largest max_length.
MaxMaxLength == 4
Texts == UNION {[1..n -> Alphabet] : n \in 0..MaxTextLen}

IsSpace(c) == c \in Whitespace

RECURSIVE LStrip(_)
LStrip(s) == IF s # <<>> /\ IsSpace(Head(s)) THEN LStrip(Tail(s)) ELSE s

RECURSIVE RStrip(_)
RStrip(s) ==
    IF s # <<>> /\ IsSpace(s[Len(s)])
    THEN RStrip(SubSeq(s, 1, Len(s) - 1))
    ELSE s

\* Faulty variant: the whitespace at the two ends stays.
Unstripped(s) == s

\* str.strip().
Strip(s) == RStrip(LStrip(s))

\* s[a:b] with 0 <= a, b <= len(s): the characters at the 0-based
\* positions a..b-1, none when b <= a.
Slice(s, a, b) == SubSeq(s, a + 1, b)

\* s.rfind(" ", start, end): the highest 0-based position in start..end-1
\* that holds a space, -1 when there is none.
RFind(s, start, end) ==
    LET P == {i \in start..(end - 1) : s[i + 1] = Space}
    IN IF P = {} THEN -1 ELSE CHOOSE i \in P : \A j \in P : j <= i

RECURSIVE SkipWhitespace(_, _)
\* The first 1-based position from k on that holds no whitespace.
SkipWhitespace(s, k) ==
    IF k <= Len(s) /\ IsSpace(s[k]) THEN SkipWhitespace(s, k + 1) ELSE k

RECURSIVE ReSplit(_, _, _, _)
\* re.split(r"(?<=[.!?])\s+", s), scanning from the 1-based position k with
\* the piece cur in progress and the pieces acc closed: a run of whitespace
\* that follows a terminator closes the piece and is dropped.
ReSplit(s, k, cur, acc) ==
    IF k > Len(s) THEN Append(acc, cur)
    ELSE IF IsSpace(s[k]) /\ k > 1 /\ s[k - 1] \in Terminators
    THEN ReSplit(s, SkipWhitespace(s, k), <<>>, Append(acc, cur))
    ELSE ReSplit(s, k + 1, Append(cur, s[k]), acc)

\* Faulty variant: the text is taken for one sentence.
SentencesUnsplit(t) == <<Strip(t)>>

\* Line 25: the sentences of the stripped text.
Sentences(t) == ReSplit(Strip(t), 1, <<>>, <<>>)

\* Faulty variant: the window is one character too long.
WindowEndLong(start, max_length, n) == Min(start + max_length + 1, n)

\* Line 44: end = min(start + max_length, len(sentence)).
WindowEnd(start, max_length, n) == Min(start + max_length, n)

RECURSIVE ForcedSplit(_, _, _, _)
\* Lines 42-53: the while loop that cuts a sentence longer than max_length,
\* from the 0-based position start on, appending to chunks.
ForcedSplit(sentence, start, max_length, chunks) ==
    IF ~(start < Len(sentence)) THEN chunks
    ELSE LET end == WindowEnd(start, max_length, Len(sentence))
             break_point == RFind(sentence, start, end)
             final_end == IF break_point = -1 \/ end = Len(sentence)
                          THEN end
                          ELSE break_point
         IN ForcedSplit(sentence, final_end + 1, max_length,
                        Append(chunks, Strip(Slice(sentence, start, final_end))))

\* Lines 44-50 for one iteration of the while loop: final_end.
FinalEnd(sentence, start, max_length) ==
    LET end == WindowEnd(start, max_length, Len(sentence))
        break_point == RFind(sentence, start, end)
    IN IF break_point = -1 \/ end = Len(sentence) THEN end ELSE break_point

\* Faulty variant: the loop goes on at the break point itself.
NextStartAtBreak(final_end) == final_end

\* Line 53: start = final_end + 1.
NextStart(final_end) == final_end + 1

\* chunks.append(current_chunk.strip()) under "if current_chunk".
Flush(chunks, current_chunk) ==
    IF current_chunk # <<>> THEN Append(chunks, Strip(current_chunk))
    ELSE chunks

RECURSIVE Accumulate(_, _, _, _, _)
\* Lines 30-68: the loop over the sentences from the k-th on, and the
\* final flush of lines 70-71.
Accumulate(sentences, k, max_length, chunks, current_chunk) ==
    IF k > Len(sentences) THEN Flush(chunks, current_chunk)
    ELSE LET sentence == sentences[k]
         IN IF sentence = <<>>
            THEN Accumulate(sentences, k + 1, max_length, chunks, current_chunk)
            ELSE IF Len(sentence) > max_length
            THEN Accumulate(sentences, k + 1, max_length,
                            ForcedSplit(sentence, 0, max_length,
                                        Flush(chunks, current_chunk)),
                            <<>>)
            ELSE IF \/ current_chunk = <<>>
                    \/ Len(current_chunk) + Len(sentence) + 1 <= max_length
            THEN Accumulate(sentences, k + 1, max_length, chunks,
                            current_chunk \o sentence \o <<Space>>)
            ELSE Accumulate(sentences, k + 1, max_length,
                            Append(chunks, Strip(current_chunk)),
                            sentence \o <<Space>>)

\* TextProcessor.split_into_chunks.
SplitIntoChunks(t, max_length) ==
    IF Strip(t) = <<>> THEN <<>>
    ELSE Accumulate(Sentences(t), 1, max_length, <<>>, <<>>)

\* ------------------------------------------------------------ truncate_text
\* truncated.rfind("."): the highest 0-based position that holds a period,
\* -1 when there is none.
RFindPeriod(s) ==
    LET P == {i \in 0..(Len(s) - 1) : s[i + 1] = "."}
    IN IF P = {} THEN -1 ELSE CHOOSE i \in P : \A j \in P : j <= i

\* Faulty variant: a period at position 0 counts too.
FoundPeriodFromZero(last_period) == last_period >= 0

\* Line 107: if last_period > 0.
FoundPeriod(last_period) == last_period > 0

\* TextProcessor.truncate_text, for max_length >= 0.
TruncateText(t, max_len) ==
    IF Len(t) <= max_len THEN t
    ELSE LET cut == Slice(t, 0, max_len)
             last_period == RFindPeriod(cut)
         IN IF FoundPeriod(last_period)
            THEN Slice(cut, 0, last_period + 1)
            ELSE cut

\* ------------------------------------------------------------- the book id
\* Longest file name.
MaxNameLen == 3
\* The characters of the file names: two letters and the dot.
NameChars == {"a", "b", "."}
FileNames == UNION {[1..n -> NameChars] : n \in 1..MaxNameLen}

\* The highest position of the name that holds a dot, 0 when none does.
LastDot(file_name) ==
    LET P == {k \in 1..Len(file_name) : file_name[k] = "."}
    IN IF P = {} THEN 0 ELSE CHOOSE k \in P : \A j \in P : j <= k

\* BaseDocument.book_id: file_name.rsplit(".", 1)[0], the name up to its
\* last dot, the whole name when it has none.
BookId(file_name) ==
    IF LastDot(file_name) = 0 THEN file_name
    ELSE SubSeq(file_name, 1, LastDot(file_name) - 1)

\* Line 83: book_output_dir = output_dir / loaded_pdf_document.book_id.
BookOutputDir(output_dir, book_id) == [parent |-> output_dir, name |-> book_id]

\* ----------------------------------------------------------------- state
VARIABLES
    file,        \* the ledger file
    pc,          \* "idle", "dispatch", "done" or "raised"
    runs,        \* convert calls so far
    resume,      \* the resume argument of the current call
    batch,       \* the batch_size argument of the current call
    npages,      \* pages the loader returned
    completed,   \* completed_chunks_indices
    work,        \* chunks_to_process, as the sequence of global indices
    res,         \* per work-set position: "pending", "running", or what
                 \* _process_chunk_worker returned: "path" or "None"
    result,      \* the value convert returned: "unset", "None" or "dir"
    dispatched,  \* indices handed to synthesize in this call, in call order
    saved,       \* the argument of _save_progress in this call
    io,          \* what this call did to the file system
    fileAtStart, \* the ledger file when this call began
    outOfOrder,  \* a unit finished before a unit of a lower index
    prev,        \* summary of the previous convert call
    \* a direct call of _save_progress
    call,        \* the list given to the save, and what the call did
    \* a call of split_into_chunks
    text,        \* the text argument
    max_length,  \* the max_length argument
    chunks,      \* the list returned
    segmented,   \* the call has returned
    \* chunk preparation on a document object
    bookPages,   \* the page texts of the document file
    pages,       \* the pages list of the document object
    converts,    \* convert calls on the document so far
    mapping,     \* the global chunk list of the latest call
    mappingBefore, \* the global chunk list of the call before it
    \* two calls of synthesize
    units,       \* the output_path and chunk_index arguments of each
    artifacts,   \* the file path each call wrote
    \* a call of truncate_text
    truncated,   \* the call has returned, and the text returned
    \* two jobs that save to one ledger file
    jobs,        \* per book id: where its save is, the list it saves, the
                 \* progress it read and what its write did
    \* one work set dispatched serially and in parallel
    twin,        \* the work set, the adapter outcome per unit, the locals
                 \* of the two processing methods and what convert did
                 \* after each
    \* two documents converted into one output directory
    docs,        \* per document: its file name, and the ledger key and the
                 \* output directory convert uses for it
    \* the while loop of the forced split
    loop         \* the sentence, max_length, start, the pieces appended
                 \* and the iterations made

ledgerVars == <<call>>
segVars == <<text, max_length, chunks, segmented>>
docVars == <<bookPages, pages, converts, mapping, mappingBefore>>
pathVars == <<units, artifacts>>
auxVars == <<truncated, jobs, twin, docs, loop>>
pipelineVars == <<pc, runs, resume, batch, npages, completed, work, res,
                  result, dispatched, saved, io, outOfOrder, prev>>

vars == <<file, fileAtStart, pipelineVars, ledgerVars, segVars, docVars,
          pathVars, auxVars>>

\* reads: times the ledger file was opened for reading; write: "no" when it
\* was not opened for writing, else the outcome of writing it.
NoIO == [mkdir |-> FALSE, reads |-> 0, write |-> "no"]
NotSaved == [called |-> FALSE, set |-> {}]
NoPrev == [valid |-> FALSE, resume |-> FALSE, npages |-> 0, result |-> "unset",
           failed |-> {}, written |-> FALSE]

\* Ledger files a run may find.
InitFiles ==
    { AbsentFile,
      File("empty", TRUE, NoEntries),
      File("invalid", TRUE, NoEntries),
      File("nonobject", TRUE, NoEntries),
      File("object", TRUE, NoEntries),
      File("object", TRUE, [NoEntries EXCEPT ![OtherBook] = Ints(<<0>>)]),
      File("object", TRUE, [NoEntries EXCEPT ![TheBook] = Ints(<<1>>),
                                             ![OtherBook] = Ints(<<0, 1>>)]),
      File("object", TRUE, [NoEntries EXCEPT ![TheBook] = Bad,
                                             ![OtherBook] = Bad]),
      File("object", FALSE, [NoEntries EXCEPT ![TheBook] = Ints(<<0>>),
                                              ![OtherBook] = Ints(<<0>>)]) }

\* No direct save, no segmenter call and no chunk preparation is under way.
NoCall == [list |-> <<>>, done |-> FALSE, raised |-> FALSE, write |-> "no"]
NoMapping == [valid |-> FALSE, reused |-> FALSE, max_pages |-> 0,
              max_text_length |-> 0, loaded |-> 0, chunks |-> <<>>,
              all_chunks_data |-> <<>>]
LedgerIdle == call = NoCall
SegIdle ==
    /\ text = <<>>
    /\ max_length = 0
    /\ chunks = <<>>
    /\ segmented = FALSE
NoPath == [dir |-> "", name |-> <<>>]
PathIdle ==
    /\ units = <<>>
    /\ artifacts = <<>>
NoTruncation == [done |-> FALSE, value |-> <<>>]
NoJob == [pc |-> "idle", list |-> <<>>,
          progress |-> [kind |-> "object", entries |-> NoEntries],
          raised |-> FALSE, write |-> "no"]
NoLoop == [sentence |-> <<>>, max_length |-> 0, start |-> 0,
           chunks |-> <<>>, iterations |-> 0, brokeAtStart |-> FALSE]
NoOut == [set |-> {}, file |-> AbsentFile, result |-> "unset"]
NoTwin == [work |-> <<>>, completed |-> <<>>, outcome |-> <<>>, batch |-> 1,
           next |-> 0, audio_files |-> <<>>, audio_files_results |-> <<>>,
           outOfOrder |-> FALSE, done |-> FALSE,
           serial |-> NoOut, parallel |-> NoOut]
AuxIdle ==
    /\ truncated = NoTruncation
    /\ jobs = [b \in Books |-> NoJob]
    /\ twin = NoTwin
    /\ docs = <<>>
    /\ loop = NoLoop
DocIdle ==
    /\ bookPages = <<>>
    /\ pages = <<>>
    /\ converts = 0
    /\ mapping = NoMapping
    /\ mappingBefore = NoMapping

\* No convert call has been made.
PipelineIdle ==
    /\ pc = "idle"
    /\ runs = 0
    /\ resume = FALSE
    /\ batch = 1
    /\ npages = 0
    /\ completed = <<>>
    /\ work = <<>>
    /\ res = <<>>
    /\ result = "unset"
    /\ dispatched = <<>>
    /\ saved = NotSaved
    /\ io = NoIO
    /\ outOfOrder = FALSE
    /\ prev = NoPrev

Init ==
    /\ file \in InitFiles
    /\ fileAtStart = file
    /\ PipelineIdle
    /\ LedgerIdle
    /\ SegIdle
    /\ DocIdle
    /\ PathIdle
    /\ AuxIdle

\* ------------------------------------------------------- convert, lines 71-120
\* Faulty variant: the check for an empty document is missing.
NoPagesUnchecked(np) == FALSE

\* Line 75: the loader returned a document without pages.
NoPages(np) == np = 0

\* Faulty variant: the completed chunks are not filtered out.
ChunksToProcessUnfiltered(all, done) == all

\* Lines 112-116: the chunks whose global index is not in the completed list.
ChunksToProcess(all, done) ==
    SelectSeq(all, LAMBDA i : i \notin SeqToSet(done))

\* Faulty variant: an empty work set is processed like any other.
NothingToProcessUnchecked(w) == FALSE

\* Line 118: nothing is left to process.
NothingToProcess(w) == w = <<>>

\* Faulty variant: the ledger is not consulted.
PreviousProgressIgnored(f, r) == [raised |-> FALSE, list |-> <<>>]

\* Lines 107-109: the ledger is loaded only when resuming.
PreviousProgress(f, r) ==
    IF r THEN LoadProgress(f, TheBook) ELSE [raised |-> FALSE, list |-> <<>>]

\* Faulty variant: the ledger is read whatever the resume flag.
LoadReadsAlways(f, r) == IF f.kind # "absent" THEN 1 ELSE 0

\* Lines 107-109 and 292-296: the times the load opens the ledger file for
\* reading: once, when resume is set and the file exists.
LoadReads(f, r) == IF r /\ f.kind # "absent" THEN 1 ELSE 0

\* Lines 323-326: the times the save opens the ledger file for reading:
\* once, when the file exists.
SaveReads(f) == IF f.kind # "absent" THEN 1 ELSE 0

\* The summary of the call that just ended, kept for the next one.
Summary ==
    [valid |-> pc # "idle", resume |-> resume, npages |-> npages,
     result |-> result,
     failed |-> {work[k] : k \in {j \in 1..Len(res) : res[j] = "None"}},
     written |-> io.write = "ok"]

\* convert_pdf_to_audiobook up to the choice of the processing method:
\* load the pages, create the output directory, prepare the chunks, load
\* the progress and filter.
Start(r, b, max_pages, loader_ok) ==
    /\ pc \in {"idle", "done", "raised"}
    /\ runs < MaxRuns
    /\ runs' = runs + 1
    /\ prev' = Summary
    /\ resume' = r
    /\ batch' = b
    /\ fileAtStart' = file
    /\ dispatched' = <<>>
    /\ saved' = NotSaved
    /\ outOfOrder' = FALSE
    /\ UNCHANGED <<file, ledgerVars, segVars, docVars, pathVars,
                 auxVars>>
    /\ LET np == LoadPages(max_pages, loader_ok)
           lp == PreviousProgress(file, r)
           w == ChunksToProcess(AllChunkIndices(np), lp.list)
           reads == LoadReads(file, r)
       IN /\ npages' = np
          /\ IF NoPages(np)
             THEN /\ pc' = "done"
                  /\ result' = "None"
                  /\ io' = NoIO
                  /\ completed' = <<>>
                  /\ work' = <<>>
                  /\ res' = <<>>
             ELSE IF lp.raised
             THEN /\ pc' = "raised"
                  /\ result' = "unset"
                  /\ io' = [mkdir |-> TRUE, reads |-> reads, write |-> "no"]
                  /\ completed' = <<>>
                  /\ work' = <<>>
                  /\ res' = <<>>
             ELSE /\ io' = [mkdir |-> TRUE, reads |-> reads, write |-> "no"]
                  /\ completed' = lp.list
                  /\ work' = w
                  /\ res' = [k \in 1..Len(w) |-> "pending"]
                  /\ IF NothingToProcess(w)
                     THEN pc' = "done" /\ result' = "None"
                     ELSE pc' = "dispatch" /\ result' = "unset"

\* ------------------------------------------------------------------ dispatch
Pending == {k \in 1..Len(res) : res[k] = "pending"}
Running == {k \in 1..Len(res) : res[k] = "running"}
\* Faulty variant: the units are taken from the end of the list.
LastPending == CHOOSE k \in Pending : \A j \in Pending : k >= j

\* The next unit: the for loop and the executor's queue take the units in
\* the order of chunks_to_process.
FirstPending == CHOOSE k \in Pending : \A j \in Pending : k <= j

\* Faulty variant: the pool has batch_size threads.
PoolSizeOfBatch(b) == b

\* Line 239: max_workers of the ThreadPoolExecutor.
PoolSize(b) == Min(b, CpuCount)

\* _process_chunks: one iteration of the loop over chunks_to_process.
SeqStep(o) ==
    /\ pc = "dispatch"
    /\ batch <= 1
    /\ Pending # {}
    /\ res' = [res EXCEPT ![FirstPending] = WorkerResult(o)]
    /\ dispatched' = Append(dispatched, work[FirstPending])
    /\ UNCHANGED <<file, pc, runs, resume, batch, npages, completed, work,
                   result, saved, io, fileAtStart, outOfOrder, prev>>
    /\ UNCHANGED <<ledgerVars, segVars, docVars, pathVars,
                 auxVars>>

\* _process_chunks_in_parallel: a pool thread takes the next submitted unit
\* from the executor's queue and calls _process_chunk_worker.
WorkerStart ==
    /\ pc = "dispatch"
    /\ batch > 1
    /\ Pending # {}
    /\ Cardinality(Running) < PoolSize(batch)
    /\ res' = [res EXCEPT ![FirstPending] = "running"]
    /\ dispatched' = Append(dispatched, work[FirstPending])
    /\ UNCHANGED <<file, pc, runs, resume, batch, npages, completed, work,
                   result, saved, io, fileAtStart, outOfOrder, prev>>
    /\ UNCHANGED <<ledgerVars, segVars, docVars, pathVars,
                 auxVars>>

\* _process_chunks_in_parallel: a unit ends and as_completed hands its
\* future to the collecting loop, which stores the result at the unit's
\* position in audio_files_results.
WorkerFinish(k, o) ==
    /\ pc = "dispatch"
    /\ batch > 1
    /\ k \in Running
    /\ res' = [res EXCEPT ![k] = WorkerResult(o)]
    /\ outOfOrder' = (outOfOrder \/ \E j \in 1..(k - 1) : ~Finished(res[j]))
    /\ UNCHANGED <<file, pc, runs, resume, batch, npages, completed, work,
                   result, dispatched, saved, io, fileAtStart, prev>>
    /\ UNCHANGED <<ledgerVars, segVars, docVars, pathVars,
                 auxVars>>

\* ------------------------------------------------------ convert, lines 137-153
\* The list both processing methods return: one path per unit that
\* produced an artifact.
AudioFiles(r) == SelectSeq(r, LAMBDA p : p # "None")

\* Faulty variant: the slice is one short.
SuccessfulIndicesShort(w, audio_files) ==
    {w[k] : k \in 1..(Len(audio_files) - 1)}

\* Lines 139-141: the indices of the first len(audio_files) chunks of
\* chunks_to_process.
SuccessfulIndices(w, audio_files) ==
    {w[k] : k \in 1..Len(audio_files)}

\* Faulty variants: the union forgets one of its sides.
AllCompletedOnlyPrevious(done, successful) == SeqToSet(done)
AllCompletedOnlyNew(done, successful) == successful

\* Line 143: the previously completed indices united with the new ones.
AllCompleted(done, successful) == SeqToSet(done) \cup successful

\* Faulty variant: the processing method returns without waiting.
AllFinishedUnchecked(r) == TRUE

\* Faulty variant: the processing method gives up at the first unit that
\* returns no artifact.
AllFinishedOrFailed(r) ==
    \/ \A k \in 1..Len(r) : Finished(r[k])
    \/ \E k \in 1..Len(r) : r[k] = "None"

\* Both processing methods return only when every unit has returned: the
\* loop of _process_chunks has run through chunks_to_process,
\* as_completed has yielded every future and the executor has shut down.
AllFinished(r) == \A k \in 1..Len(r) : Finished(r[k])

\* The processing method returned: update the progress and return.
Finalize(w) ==
    /\ pc = "dispatch"
    /\ AllFinished(res)
    /\ LET all_completed ==
               AllCompleted(completed, SuccessfulIndices(work, AudioFiles(res)))
           sp == SaveProgress(file, TheBook, ListOfSet(all_completed), w)
           reads == SaveReads(file)
       IN /\ saved' = [called |-> TRUE, set |-> all_completed]
          /\ file' = sp.file
          /\ IF sp.raised
             THEN /\ pc' = "raised"
                  /\ result' = "unset"
                  /\ io' = [io EXCEPT !.reads = @ + reads]
             ELSE /\ pc' = "done"
                  /\ result' = "dir"
                  /\ io' = [io EXCEPT !.reads = @ + reads, !.write = w]
    /\ UNCHANGED <<runs, resume, batch, npages, completed, work, res,
                   dispatched, fileAtStart, outOfOrder, prev>>
    /\ UNCHANGED <<ledgerVars, segVars, docVars, pathVars,
                 auxVars>>

Next ==
    \/ \E r \in BOOLEAN, b \in BatchSizes, mp \in 0..(Len(PageChunks) - 1),
          lok \in BOOLEAN : Start(r, b, mp, lok)
    \/ \E o \in Outcomes : SeqStep(o)
    \/ WorkerStart
    \/ \E k \in 1..(MaxIndex + 1), o \in Outcomes : WorkerFinish(k, o)
    \/ \E w \in WriteOutcomes : Finalize(w)

Spec == Init /\ [][Next]_vars
\* ------------------------------------------------- a direct call of the save
\* Longest list given to _save_progress.
MaxListLen == 3
\* The lists a caller may give: any order, with or without repeats.
IndexLists == UNION {[1..n -> Indices] : n \in 0..MaxListLen}

LedgerInit ==
    /\ file \in InitFiles
    /\ fileAtStart = file
    /\ call \in {[NoCall EXCEPT !.list = l] : l \in IndexLists}
    /\ PipelineIdle
    /\ SegIdle
    /\ DocIdle
    /\ PathIdle
    /\ AuxIdle

\* _save_progress(TheBook, call.list), with the outcome w of writing the
\* file.
SaveCall(w) ==
    /\ ~call.done
    /\ LET sp == SaveProgress(file, TheBook, call.list, w)
       IN /\ file' = sp.file
          /\ call' = [call EXCEPT !.done = TRUE,
                                  !.raised = sp.raised,
                                  !.write = IF sp.raised THEN "no" ELSE w]
    /\ UNCHANGED <<fileAtStart, pipelineVars, segVars, docVars, pathVars,
                 auxVars>>

LedgerNext == \E w \in WriteOutcomes : SaveCall(w)

LedgerSpec == LedgerInit /\ [][LedgerNext]_vars

\* ------------------------------------------------- a call of the segmenter
SegInit ==
    /\ text \in Texts
    /\ max_length \in 0..MaxMaxLength
    /\ chunks = <<>>
    /\ segmented = FALSE
    /\ file = AbsentFile
    /\ fileAtStart = file
    /\ PipelineIdle
    /\ LedgerIdle
    /\ DocIdle
    /\ PathIdle
    /\ AuxIdle

\* split_into_chunks(text, max_length) returns.
Split ==
    /\ ~segmented
    /\ chunks' = SplitIntoChunks(text, max_length)
    /\ segmented' = TRUE
    /\ UNCHANGED <<text, max_length>>
    /\ UNCHANGED <<file, fileAtStart, pipelineVars, ledgerVars, docVars,
                   pathVars, auxVars>>

SegNext == Split

SegSpec == SegInit /\ [][SegNext]_vars

\* ------------------------------------- chunk preparation on a document object
\* Page texts of the document files: "a. a.", "aa a." and a page without
\* text.
PageA == <<"a", ".", Space, "a", ".">>
PageB == <<"a", "a", Space, "a", ".">>
PageBlank == <<>>
\* What the repository reads for one page of a file: its text, and the
\* chunks of the page when the repository computes them itself (the
\* repository is handed to the service; PDFRepository gives none).
FilePage(content) == [content |-> content, chunks |-> <<>>]
PreChunkedPage ==
    [content |-> <<"a", ".">>, chunks |-> << <<"a">>, <<".">> >>]
\* The document files: their pages, in page order.
DocumentFiles ==
    { <<FilePage(PageA)>>, <<FilePage(PageB)>>,
      <<FilePage(PageA), FilePage(PageB)>>,
      <<FilePage(PageB), FilePage(PageA)>>,
      <<FilePage(PageBlank), FilePage(PageA)>>,
      <<FilePage(PageBlank), FilePage(PageB)>>,
      <<PreChunkedPage, FilePage(PageB)>>,
      <<FilePage(PageA), PreChunkedPage>> }
\* The values of audio_config.max_text_length.
TextLengths == {2, MaxMaxLength}
\* Number of convert calls on one document file in one behaviour.
MaxConverts == 3

\* PDFPage(content, page_number): chunks defaults to the empty list.
Page(content, page_number) ==
    [content |-> content, page_number |-> page_number, chunks |-> <<>>]

\* PDFRepository.load_pages, lines 81-84.  max_pages = 0 stands for None.
NumPagesToLoad(max_pages, pages_count) ==
    IF max_pages # 0 THEN Min(max_pages, pages_count) ELSE pages_count

\* Faulty variant: the loader is called twice.
AddPagesTwice(pgs, source, max_pages, loader_ok) ==
    IF ~loader_ok THEN pgs
    ELSE LET loaded == [i \in 1..NumPagesToLoad(max_pages, Len(source)) |->
                           [Page(source[i].content, i - 1)
                               EXCEPT !.chunks = source[i].chunks]]
         IN pgs \o loaded \o loaded

\* PDFRepository.load_pages on a document object whose pages list is pgs:
\* add_page appends the pages read from the file to that list.  When
\* opening the file raises, the error is logged and the list stays.
AddPages(pgs, source, max_pages, loader_ok) ==
    IF ~loader_ok THEN pgs
    ELSE pgs \o [i \in 1..NumPagesToLoad(max_pages, Len(source)) |->
                    [Page(source[i].content, i - 1)
                        EXCEPT !.chunks = source[i].chunks]]

RECURSIVE PrepareTextChunks(_, _)
\* _prepare_text_chunks: the chunks of every page of the document object,
\* in the order of its pages list.  The position of a chunk in this list,
\* counted from 0, is its global index (_prepare_chunks_for_conversion).
PrepareTextChunks(pgs, max_text_length) ==
    IF pgs = <<>> THEN <<>>
    ELSE (IF Head(pgs).chunks # <<>>
          THEN Head(pgs).chunks
          ELSE SplitIntoChunks(Head(pgs).content, max_text_length))
         \o PrepareTextChunks(Tail(pgs), max_text_length)

\* Faulty variant: the indices are counted from 1.
PrepareChunksForConversionFromOne(text_chunks) ==
    [k \in 1..Len(text_chunks) |-> [chunk |-> text_chunks[k], index |-> k]]

\* _prepare_chunks_for_conversion: enumerate(text_chunks) gives every chunk
\* its position in the list, counted from 0, as its index.
PrepareChunksForConversion(text_chunks) ==
    [k \in 1..Len(text_chunks) |-> [chunk |-> text_chunks[k], index |-> k - 1]]

DocInit ==
    /\ bookPages \in DocumentFiles
    /\ pages = <<>>
    /\ converts = 0
    /\ mapping = NoMapping
    /\ mappingBefore = NoMapping
    /\ file = AbsentFile
    /\ fileAtStart = file
    /\ PipelineIdle
    /\ LedgerIdle
    /\ SegIdle
    /\ PathIdle
    /\ AuxIdle

\* convert_pdf_to_audiobook, lines 71-104, called with the document object
\* of the call before it (same_object) or with one newly made by
\* find_by_filename.
Convert(same_object, max_pages, max_text_length, loader_ok) ==
    /\ converts < MaxConverts
    /\ same_object => converts > 0
    /\ converts' = converts + 1
    /\ LET before == IF same_object THEN pages ELSE <<>>
           pgs == AddPages(before, bookPages, max_pages, loader_ok)
           all_text_chunks == PrepareTextChunks(pgs, max_text_length)
       IN /\ pages' = pgs
          /\ mappingBefore' = mapping
          /\ mapping' =
                IF pgs = <<>> THEN NoMapping
                ELSE [valid |-> TRUE, reused |-> same_object,
                      max_pages |-> max_pages,
                      max_text_length |-> max_text_length,
                      loaded |-> Len(pgs) - Len(before),
                      chunks |-> all_text_chunks,
                      all_chunks_data |->
                          PrepareChunksForConversion(all_text_chunks)]
    /\ UNCHANGED bookPages
    /\ UNCHANGED <<file, fileAtStart, pipelineVars, ledgerVars, segVars,
                   pathVars, auxVars>>

DocNext ==
    \E so \in BOOLEAN, mp \in 0..Len(bookPages), len \in TextLengths,
       lok \in BOOLEAN : Convert(so, mp, len, lok)

DocSpec == DocInit /\ [][DocNext]_vars

\* ------------------------------------------------ two calls of synthesize
\* Largest of the small chunk indices.
MaxChunkIndex == 2
\* The chunk indices of the calls: small ones, and the ones around the
\* numbers that fill the field of three digits.
ChunkIndexes == (0..MaxChunkIndex) \cup {98, 99, 998, 999, 1000}

PathInit ==
    /\ units \in [1..2 -> [dir : Books, index : ChunkIndexes]]
    /\ artifacts = <<NoPath, NoPath>>
    /\ file = AbsentFile
    /\ fileAtStart = file
    /\ PipelineIdle
    /\ LedgerIdle
    /\ SegIdle
    /\ DocIdle
    /\ AuxIdle

\* synthesize(text, output_path, chunk_index, audio_config) of the k-th
\* call writes its audio file and returns the path.
Synthesize(k) ==
    /\ artifacts[k] = NoPath
    /\ artifacts' = [artifacts EXCEPT
                       ![k] = ArtifactPath(units[k].dir, units[k].index)]
    /\ UNCHANGED units
    /\ UNCHANGED <<file, fileAtStart, pipelineVars, ledgerVars, segVars,
                   docVars, auxVars>>

PathNext == \E k \in 1..2 : Synthesize(k)

PathSpec == PathInit /\ [][PathNext]_vars

\* --------------------------------------------------- a call of truncate_text
TruncInit ==
    /\ text \in Texts
    /\ max_length \in 0..MaxMaxLength
    /\ truncated = NoTruncation
    /\ jobs = [b \in Books |-> NoJob]
    /\ twin = NoTwin
    /\ docs = <<>>
    /\ loop = NoLoop
    /\ chunks = <<>>
    /\ segmented = FALSE
    /\ file = AbsentFile
    /\ fileAtStart = file
    /\ PipelineIdle
    /\ LedgerIdle
    /\ DocIdle
    /\ PathIdle

\* truncate_text(text, max_length) returns.
Truncate ==
    /\ ~truncated.done
    /\ truncated' = [done |-> TRUE, value |-> TruncateText(text, max_length)]
    /\ UNCHANGED <<jobs, twin, docs, loop>>
    /\ UNCHANGED <<file, fileAtStart, pipelineVars, ledgerVars, segVars,
                   docVars, pathVars>>

TruncNext == Truncate

TruncSpec == TruncInit /\ [][TruncNext]_vars

\* ------------------------------------- two jobs that share the ledger file
\* The lists the two jobs save.
JobLists == {<<0>>, <<1, 0>>}

JobsInit ==
    /\ file \in InitFiles
    /\ fileAtStart = file
    /\ jobs \in [Books -> {[NoJob EXCEPT !.pc = "start", !.list = l] :
                               l \in JobLists}]
    /\ truncated = NoTruncation
    /\ twin = NoTwin
    /\ docs = <<>>
    /\ loop = NoLoop
    /\ PipelineIdle
    /\ LedgerIdle
    /\ SegIdle
    /\ DocIdle
    /\ PathIdle

\* The save of the job of book b reads the file (lines 322-343).
JobRead(b) ==
    /\ jobs[b].pc = "start"
    /\ jobs' = [jobs EXCEPT ![b].pc = "read",
                            ![b].progress = ReadExisting(file)]
    /\ UNCHANGED <<file, fileAtStart, truncated, twin, docs, loop>>
    /\ UNCHANGED <<pipelineVars, ledgerVars, segVars, docVars, pathVars>>

\* The save of the job of book b sets its entry in what it read and
\* rewrites the file (lines 345-352), with the outcome w of writing.
JobWrite(b, w) ==
    /\ jobs[b].pc = "read"
    /\ LET uw == UpdateAndWrite(file, jobs[b].progress, b, jobs[b].list, w)
       IN /\ file' = uw.file
          /\ jobs' = [jobs EXCEPT ![b].pc = "done",
                                  ![b].raised = uw.raised,
                                  ![b].write = IF uw.raised THEN "no" ELSE w]
    /\ UNCHANGED <<fileAtStart, truncated, twin, docs, loop>>
    /\ UNCHANGED <<pipelineVars, ledgerVars, segVars, docVars, pathVars>>

JobsNext ==
    \E b \in Books :
        \/ JobRead(b)
        \/ \E w \in WriteOutcomes : JobWrite(b, w)

JobsSpec == JobsInit /\ [][JobsNext]_vars

\* ----------------------- one work set dispatched serially and in parallel
\* Faulty variant: the units without an artifact stay in the list.
ParallelFilesWithNone(audio_files_results) == audio_files_results

\* _process_chunks_in_parallel, line 273: successful_files, the entries of
\* audio_files_results that are not None, in the order of the list.
ParallelFiles(audio_files_results) ==
    SelectSeq(audio_files_results, LAMBDA p : p # "None")

\* _process_chunks, lines 198-200: the artifact is appended when the worker
\* returned one.
SerialAppend(audio_files, audio_file) ==
    IF audio_file # "None" THEN Append(audio_files, audio_file)
    ELSE audio_files

\* Lines 137-153 for the list audio_files a processing method returned:
\* the set given to the save, the file the save leaves and what convert
\* returns.
AfterDispatch(f, done, w, audio_files, wo) ==
    LET all_completed == AllCompleted(done, SuccessfulIndices(w, audio_files))
        sp == SaveProgress(f, TheBook, ListOfSet(all_completed), wo)
    IN [set |-> all_completed, file |-> sp.file,
        result |-> IF sp.raised THEN "raised" ELSE "dir"]

\* The previously completed index sets that leave work to do.
CompletedSets == {C \in SUBSET Indices : C # Indices}

TwinInit ==
    /\ file \in InitFiles
    /\ fileAtStart = file
    /\ twin \in
         UNION { UNION { { [NoTwin EXCEPT
                             !.completed = SortedSeq(C),
                             !.work = SortedSeq(Indices \ C),
                             !.outcome = o,
                             !.batch = b,
                             !.audio_files_results =
                                 [k \in 1..Len(o) |-> "pending"]] :
                           o \in [1..Cardinality(Indices \ C) -> Outcomes] } :
                         C \in CompletedSets } :
                 b \in BatchSizes \ {1} }
    /\ truncated = NoTruncation
    /\ jobs = [b \in Books |-> NoJob]
    /\ docs = <<>>
    /\ loop = NoLoop
    /\ PipelineIdle
    /\ LedgerIdle
    /\ SegIdle
    /\ DocIdle
    /\ PathIdle

TwinUnchanged ==
    /\ UNCHANGED <<file, fileAtStart, truncated, jobs, docs, loop>>
    /\ UNCHANGED <<pipelineVars, ledgerVars, segVars, docVars, pathVars>>

\* _process_chunks: one iteration of the loop over chunks_to_process.
TwinSeqStep ==
    /\ twin.next < Len(twin.work)
    /\ twin' = [twin EXCEPT
                   !.next = @ + 1,
                   !.audio_files =
                       SerialAppend(@, WorkerResult(twin.outcome[twin.next + 1]))]
    /\ TwinUnchanged

\* _process_chunks_in_parallel on the same work set, once the serial run
\* is through: a pool thread takes the next submitted unit.
TwinWorkerStart ==
    LET r == twin.audio_files_results
        pending == {k \in 1..Len(r) : r[k] = "pending"}
        running == {k \in 1..Len(r) : r[k] = "running"}
    IN /\ twin.next = Len(twin.work)
       /\ pending # {}
       /\ Cardinality(running) < PoolSize(twin.batch)
       /\ twin' = [twin EXCEPT
                      !.audio_files_results[CHOOSE k \in pending :
                                               \A j \in pending : k <= j] =
                          "running"]
       /\ TwinUnchanged

\* A unit ends and its result is stored at original_index.
TwinWorkerFinish(k) ==
    /\ k \in 1..Len(twin.audio_files_results)
    /\ twin.audio_files_results[k] = "running"
    /\ twin' = [twin EXCEPT
                   !.audio_files_results[k] = WorkerResult(twin.outcome[k]),
                   !.outOfOrder =
                       @ \/ \E j \in 1..(k - 1) :
                                ~Finished(twin.audio_files_results[j])]
    /\ TwinUnchanged

\* Both processing methods have returned: what convert does with each
\* list, from the same ledger file and with the same outcome wo of writing.
TwinFinalize(wo) ==
    /\ ~twin.done
    /\ twin.next = Len(twin.work)
    /\ AllFinished(twin.audio_files_results)
    /\ twin' = [twin EXCEPT
                   !.done = TRUE,
                   !.serial = AfterDispatch(file, twin.completed, twin.work,
                                            twin.audio_files, wo),
                   !.parallel = AfterDispatch(file, twin.completed, twin.work,
                                              ParallelFiles(
                                                  twin.audio_files_results),
                                              wo)]
    /\ TwinUnchanged

TwinNext ==
    \/ TwinSeqStep
    \/ TwinWorkerStart
    \/ \E k \in 1..(MaxIndex + 1) : TwinWorkerFinish(k)
    \/ \E wo \in WriteOutcomes : TwinFinalize(wo)

TwinSpec == TwinInit /\ [][TwinNext]_vars

\* ---------------------------------- two documents, one output directory
NoDoc == [file_name |-> <<>>, started |-> FALSE, book_id |-> <<>>,
          book_output_dir |-> BookOutputDir("", <<>>)]

IdInit ==
    /\ docs \in [1..2 -> {[NoDoc EXCEPT !.file_name = n] : n \in FileNames}]
    /\ file = AbsentFile
    /\ fileAtStart = file
    /\ truncated = NoTruncation
    /\ jobs = [b \in Books |-> NoJob]
    /\ twin = NoTwin
    /\ loop = NoLoop
    /\ PipelineIdle
    /\ LedgerIdle
    /\ SegIdle
    /\ DocIdle
    /\ PathIdle

\* convert_pdf_to_audiobook for the k-th document, lines 79-84: the book
\* id, under which the progress is loaded and saved, and the directory the
\* audio files are written to.
ConvertStart(k) ==
    /\ ~docs[k].started
    /\ docs' = [docs EXCEPT
                   ![k].started = TRUE,
                   ![k].book_id = BookId(docs[k].file_name),
                   ![k].book_output_dir =
                       BookOutputDir("output", BookId(docs[k].file_name))]
    /\ UNCHANGED <<file, fileAtStart, truncated, jobs, twin, loop>>
    /\ UNCHANGED <<pipelineVars, ledgerVars, segVars, docVars, pathVars>>

IdNext == \E k \in 1..2 : ConvertStart(k)

IdSpec == IdInit /\ [][IdNext]_vars

\* -------------------------------------- the while loop of the forced split
\* The sentences re.split hands to the loop: texts of letters, spaces and
\* tabs that are one sentence, without whitespace at their ends.
LongSentences ==
    {t \in UNION {[1..n -> {"a", Space, Tab}] : n \in 1..MaxTextLen} :
        Sentences(t) = <<t>>}

LoopInit ==
    /\ loop \in {[NoLoop EXCEPT !.sentence = sm[1], !.max_length = sm[2]] :
                    sm \in {x \in LongSentences \X (1..MaxMaxLength) :
                               Len(x[1]) > x[2]}}
    /\ file = AbsentFile
    /\ fileAtStart = file
    /\ truncated = NoTruncation
    /\ jobs = [b \in Books |-> NoJob]
    /\ twin = NoTwin
    /\ docs = <<>>
    /\ PipelineIdle
    /\ LedgerIdle
    /\ SegIdle
    /\ DocIdle
    /\ PathIdle

\* One iteration of the while loop, lines 43-53.
ForcedSplitStep ==
    /\ loop.start < Len(loop.sentence)
    /\ LET final_end == FinalEnd(loop.sentence, loop.start, loop.max_length)
       IN loop' = [loop EXCEPT
                      !.chunks = Append(@, Strip(Slice(loop.sentence,
                                                       loop.start, final_end))),
                      !.start = NextStart(final_end),
                      !.iterations = @ + 1,
                      !.brokeAtStart = @ \/ final_end = loop.start]
    /\ UNCHANGED <<file, fileAtStart, truncated, jobs, twin, docs>>
    /\ UNCHANGED <<pipelineVars, ledgerVars, segVars, docVars, pathVars>>

LoopNext == ForcedSplitStep

LoopSpec == LoopInit /\ [][LoopNext]_vars

\* The thread that runs the loop goes on running it.
LoopFairSpec == LoopSpec /\ WF_vars(ForcedSplitStep)

\* ================================================================== claims
\* The finished units of the current call that produced an artifact.
Synthesized == {work[k] : k \in {j \in 1..Len(res) : res[j] = "path"}}
ChunkSet(np) == {i \in Indices : i < NumChunks(np)}
Ascending(s) == \A j, k \in 1..Len(s) : j < k => s[j] < s[k]

\* C1: the set convert hands to the ledger save is the previously completed
\* set united with exactly the work-set indices whose synthesis returned an
\* artifact.
C1_SavedIsCompletedPlusSynthesized ==
    saved.called => saved.set = SeqToSet(completed) \cup Synthesized

\* C2: a chunk whose synthesis failed in a run that wrote the ledger is in
\* the work set of the next call with resume=true on the same document.
C2_FailedChunkDispatchedOnResume ==
    (/\ pc \in {"dispatch", "done"}
     /\ resume
     /\ prev.valid /\ prev.result = "dir" /\ prev.written)
    => \A i \in prev.failed \cap ChunkSet(npages) : i \in SeqToSet(work)

\* C3: with resume=true the work set is exactly the chunk indices that the
\* ledger does not hold for this book id, in ascending order, the
\* synthesizer is called with the work set in that order and with nothing
\* else; with resume=false the ledger is not loaded and every chunk is
\* dispatched.
C3_WorkSetIsLedgerFilter ==
    (pc \in {"dispatch", "done"} /\ npages > 0) =>
        /\ SeqToSet(work) = ChunkSet(npages) \ SeqToSet(completed)
        /\ Ascending(work)
        /\ Len(dispatched) <= Len(work)
        /\ dispatched = SubSeq(work, 1, Len(dispatched))
        /\ result = "dir" => dispatched = work
        /\ resume => SeqToSet(completed) = Persisted(fileAtStart, TheBook)
        /\ ~resume =>
              /\ completed = <<>>
              /\ SeqToSet(work) = ChunkSet(npages)
              /\ pc = "dispatch" => io.reads = 0

C3_Witness ==
    /\ pc = "done" /\ resume /\ result = "dir"
    /\ completed # <<>>
    /\ Len(work) >= 2
    /\ dispatched = work

\* The second of two calls on the same document: the first with
\* resume=false, which returned the output directory and wrote the ledger,
\* this one with resume=true and a ledger file it can read.
ResumeAfterFreshRun ==
    /\ prev.valid /\ ~prev.resume /\ prev.result = "dir" /\ prev.written
    /\ resume
    /\ npages = prev.npages
    /\ fileAtStart.readable

\* C4 as stated: convert with resume=false and then with resume=true on the
\* same document makes no synthesis call in the second run, which returns
\* nothing.
C4_SecondRunIsNoOp ==
    ResumeAfterFreshRun =>
        pc = "done" /\ result = "None" /\ dispatched = <<>>

\* C4 amended: when the first run synthesized every chunk, returned the
\* output directory and wrote the ledger, and the ledger file is readable,
\* the second run makes no synthesis call, returns nothing and leaves the
\* ledger alone.
C4_SecondRunIsNoOpAfterFullRun ==
    (ResumeAfterFreshRun /\ prev.failed = {})
    => /\ pc = "done" /\ result = "None"
       /\ dispatched = <<>>
       /\ ~saved.called /\ file = fileAtStart

C4_Witness ==
    /\ ResumeAfterFreshRun /\ prev.failed = {}
    /\ NumChunks(npages) >= 3
    /\ pc = "done" /\ result = "None"

\* C5: in parallel dispatch the set saved to the ledger is a function of
\* the work set and of the per-unit results alone, whatever the order in
\* which the units finished; when every unit produced an artifact it is the
\* completed set united with the whole work set.
C5_ParallelSavedSetIgnoresOrder ==
    (saved.called /\ batch > 1) =>
        /\ saved.set = SeqToSet(completed)
                          \cup {work[k] : k \in 1..Cardinality(Synthesized)}
        /\ Synthesized = SeqToSet(work)
              => saved.set = SeqToSet(completed) \cup SeqToSet(work)

C5_Witness ==
    /\ pc = "done" /\ batch > 1 /\ outOfOrder
    /\ Len(work) >= 3
    /\ Synthesized = SeqToSet(work)
    /\ saved.called /\ saved.set = SeqToSet(work)

\* C6 as stated: after a run that read the ledger file it found and whose
\* save wrote the file, whatever the resume flag, the set persisted for the
\* book id contains the set persisted before the run.
C6_PersistedSetOnlyGrows ==
    (pc = "done" /\ io.write = "ok" /\ fileAtStart.readable) =>
        Persisted(fileAtStart, TheBook) \subseteq Persisted(file, TheBook)

\* C6 amended: a run with resume=true hands to the save a set that contains
\* the set persisted before the run, and when the save wrote the file that
\* set is what the file holds.
C6_ResumeRunNeverRemoves ==
    (saved.called /\ resume) =>
        /\ Persisted(fileAtStart, TheBook) \subseteq saved.set
        /\ (pc = "done" /\ io.write = "ok")
              => Persisted(file, TheBook) = saved.set

C6_Witness ==
    /\ pc = "done" /\ resume /\ io.write = "ok"
    /\ Persisted(fileAtStart, TheBook) # {}
    /\ Persisted(fileAtStart, TheBook) # Persisted(file, TheBook)
    /\ Persisted(fileAtStart, TheBook) \subseteq Persisted(file, TheBook)

\* C7: saving the progress of one book id leaves the entry of every other
\* book id as it was in the file before the save.
C7_OtherEntriesPreserved ==
    saved.called => file.entries[OtherBook] = fileAtStart.entries[OtherBook]

\* C8: with pages loaded and an empty work set, convert returns nothing,
\* calls the synthesizer for no chunk and does not write the ledger file.
C8_EmptyWorkSetIsNoOp ==
    (pc \in {"dispatch", "done"} /\ npages > 0 /\ work = <<>>) =>
        /\ pc = "done" /\ result = "None"
        /\ dispatched = <<>>
        /\ ~saved.called /\ io.write = "no"
        /\ file = fileAtStart

C8_Witness ==
    /\ pc = "done" /\ resume
    /\ NumChunks(npages) >= 3
    /\ SeqToSet(completed) = ChunkSet(npages)
    /\ work = <<>> /\ result = "None"

\* C9: when the loader returns no pages, convert returns nothing without
\* raising, creates no output directory, calls the synthesizer for no chunk
\* and neither reads nor writes the ledger.
C9_NoPagesIsNoOp ==
    (runs > 0 /\ npages = 0) =>
        /\ pc = "done" /\ result = "None"
        /\ ~io.mkdir /\ io.reads = 0 /\ io.write = "no"
        /\ dispatched = <<>> /\ ~saved.called
        /\ file = fileAtStart

C9_Witness ==
    /\ runs > 0 /\ npages = 0 /\ resume
    /\ fileAtStart.kind = "nonobject"
    /\ pc = "done" /\ result = "None"

\* The ledger file is readable and gives no list of integers for the book
\* id.
NoProgressInFile(f) ==
    /\ f.readable
    /\ f.kind # "object" \/ f.entries[TheBook].kind # "ints"

\* C10: loading the progress never raises; a ledger file that is absent,
\* not JSON, JSON of the wrong shape or without a list of integers for the
\* book id gives the empty progress.
C10_LoadNeverRaises ==
    (runs > 0 /\ resume /\ npages > 0 /\ NoProgressInFile(fileAtStart)) =>
        pc # "raised" /\ completed = <<>>

\* What a save that wrote everything leaves in the file for the book id.
SavedEntry == Ints(SortedSeq(saved.set))

\* C11: a save that finds the ledger file missing, empty or malformed
\* (valid JSON that is not an object included) takes the existing ledger
\* for the empty map, does not raise, and when the file can be written
\* leaves it holding the entry of the saved book id.
C11_SaveOnMalformedLedger ==
    (/\ saved.called
     /\ fileAtStart.readable
     /\ fileAtStart.kind \in {"absent", "empty", "invalid", "nonobject"})
    => /\ pc = "done"
       /\ io.write = "ok" =>
             /\ file.kind = "object"
             /\ file.entries[TheBook] = SavedEntry
             /\ file.entries[OtherBook] = Missing

\* C12: when writing the ledger file fails after dispatch of a run with
\* resume=true that found a ledger it could read, convert does
\* not raise and returns the output directory, and the file still records
\* for the book id what it recorded before the run: only the progress of
\* this run is lost.
C12_WriteFailureLosesOnlyThisRun ==
    (saved.called /\ resume
     /\ fileAtStart.readable /\ fileAtStart.kind = "object"
     /\ io.write \in {"open_fails", "write_fails"})
    => /\ pc = "done" /\ result = "dir"
       /\ Persisted(file, TheBook) = Persisted(fileAtStart, TheBook)

\* C14: the rewrite is atomic: after a save, finished or interrupted, the
\* ledger file holds its complete previous contents or the complete new
\* contents.
C14_RewriteIsAtomic ==
    (saved.called /\ pc = "done" /\ fileAtStart.readable
     /\ fileAtStart.kind = "object")
    => \/ file = fileAtStart
       \/ /\ file.kind = "object"
          /\ file.entries[TheBook] = SavedEntry
          /\ file.entries[OtherBook] = fileAtStart.entries[OtherBook]

\* C15: the save of a job happens only when every dispatched unit of the
\* job has finished; while a unit is pending or running the save has not
\* been called and the ledger file is as it was when the job began.
C15_SaveOnlyAfterDispatch ==
    /\ saved.called => \A k \in 1..Len(res) : Finished(res[k])
    /\ (\E k \in 1..Len(res) : ~Finished(res[k])) =>
          /\ pc = "dispatch"
          /\ ~saved.called /\ io.write = "no"
          /\ file = fileAtStart

C15_Witness ==
    /\ pc = "done" /\ saved.called /\ io.write = "ok"
    /\ batch > 1 /\ outOfOrder
    /\ Len(work) >= 3
    /\ \E k \in 1..Len(res) : res[k] = "None"
    /\ file # fileAtStart

\* C13: for every list of indices given to the save, in any order and with
\* or without repeated values, the array written for the book id is in
\* ascending order and holds each given index exactly once.
C13_WrittenListSortedAndDeduplicated ==
    (call.done /\ call.write = "ok") =>
        /\ file.kind = "object"
        /\ file.entries[TheBook].kind = "ints"
        /\ Ascending(file.entries[TheBook].list)
        /\ SeqToSet(file.entries[TheBook].list) = SeqToSet(call.list)

\* The text holds a sentence longer than max_length.
HasLongSentence ==
    \E k \in 1..Len(Sentences(text)) : Len(Sentences(text)[k]) > max_length

\* C16: for every text and every max_length >= 1, every chunk the
\* segmenter returns has at most max_length characters, the pieces cut from
\* a sentence longer than max_length included.
C16_ChunkLengthBound ==
    (segmented /\ max_length >= 1) =>
        \A k \in 1..Len(chunks) : Len(chunks[k]) <= max_length

C16_Witness ==
    /\ segmented /\ max_length >= 2
    /\ HasLongSentence
    /\ Len(chunks) >= 2
    /\ \E k \in 1..Len(chunks) : Len(chunks[k]) = max_length

RECURSIVE Words(_, _, _)
\* str.split(): the maximal runs of characters that are not whitespace.
Words(t, cur, acc) ==
    IF t = <<>> THEN IF cur = <<>> THEN acc ELSE Append(acc, cur)
    ELSE IF IsSpace(Head(t))
    THEN Words(Tail(t), <<>>, IF cur = <<>> THEN acc ELSE Append(acc, cur))
    ELSE Words(Tail(t), Append(cur, Head(t)), acc)

RECURSIVE JoinWithSpaces(_)
\* " ".join(l).
JoinWithSpaces(l) ==
    IF l = <<>> THEN <<>>
    ELSE IF Len(l) = 1 THEN l[1]
    ELSE l[1] \o <<Space>> \o JoinWithSpaces(Tail(l))

\* The text with every run of whitespace collapsed to one space and none
\* at its ends.
Collapsed(t) == JoinWithSpaces(Words(t, <<>>, <<>>))

\* The text ends, after its trailing whitespace, with a sentence
\* terminator.
SentenceTerminated(t) ==
    Strip(t) # <<>> /\ Strip(t)[Len(Strip(t))] \in Terminators

\* C17: for every sentence-terminated text and every max_length >= 1, the
\* chunks joined with single spaces are the text with its whitespace
\* collapsed.
C17_JoinedChunksAreCollapsedText ==
    (segmented /\ max_length >= 1 /\ SentenceTerminated(text)) =>
        JoinWithSpaces(chunks) = Collapsed(text)

\* C18: for every text and every max_length >= 1, every chunk the segmenter
\* returns is non-empty and neither begins nor ends with whitespace.
C18_ChunksNonEmptyAndTrimmed ==
    (segmented /\ max_length >= 1) =>
        \A k \in 1..Len(chunks) :
            /\ chunks[k] # <<>>
            /\ ~IsSpace(chunks[k][1])
            /\ ~IsSpace(chunks[k][Len(chunks[k])])

\* C19: for the empty text and for every text of whitespace only, the
\* segmenter returns the empty list, whatever max_length.
C19_BlankTextGivesNoChunks ==
    (segmented /\ \A k \in 1..Len(text) : IsSpace(text[k])) =>
        chunks = <<>>

C19_Witness ==
    /\ segmented /\ chunks = <<>>
    /\ Len(text) >= 2
    /\ \A k \in 1..Len(text) : IsSpace(text[k])
    /\ \E k \in 1..Len(text) : text[k] = Tab

\* C20: two consecutive convert calls on the same document with the same
\* max_text_length and the same max_pages, on one document object or on
\* two, give the same list of chunks: every global index stands for the
\* same text in both and neither has an index the other lacks.
C20_IndexMappingStable ==
    (/\ mapping.valid /\ mappingBefore.valid
     /\ mapping.max_text_length = mappingBefore.max_text_length
     /\ mapping.max_pages = mappingBefore.max_pages)
    => mapping.chunks = mappingBefore.chunks

\* The number a sequence of decimal digits stands for.
DigitValue(c) == CHOOSE d \in 0..9 : DigitChars[d + 1] = c
RECURSIVE DecimalValue(_)
DecimalValue(digits) ==
    IF digits = <<>> THEN 0
    ELSE 10 * DecimalValue(SubSeq(digits, 1, Len(digits) - 1))
         + DigitValue(digits[Len(digits)])

\* The part of a file name between its first and its last member.
Stem(name) == SubSeq(name, 2, Len(name) - 1)

\* C21: the path of an audio file is output_path joined with chunk_, the
\* decimal digits of chunk_index + 1 filled with zeros to at least three
\* digits, and .mp3; two calls get the same path exactly when they have
\* the same output directory and the same chunk index.
C21_ArtifactPathIsInjective ==
    /\ \A k \in 1..Len(artifacts) :
          artifacts[k] # NoPath =>
              /\ artifacts[k].dir = units[k].dir
              /\ Head(artifacts[k].name) = "chunk_"
              /\ artifacts[k].name[Len(artifacts[k].name)] = ".mp3"
              /\ Len(Stem(artifacts[k].name)) >= 3
              /\ Len(Stem(artifacts[k].name)) > 3
                    => Head(Stem(artifacts[k].name)) # "0"
              /\ DecimalValue(Stem(artifacts[k].name)) = units[k].index + 1
    /\ \A j, k \in 1..Len(artifacts) :
          (artifacts[j] # NoPath /\ artifacts[k] # NoPath) =>
              (artifacts[j] = artifacts[k] <=> units[j] = units[k])

C21_Witness ==
    /\ Len(artifacts) = 2
    /\ artifacts[1] # NoPath /\ artifacts[2] # NoPath
    /\ units[1].dir = units[2].dir
    /\ units[1].index = 0 /\ units[2].index = 1000
    /\ artifacts[1].name = <<"chunk_", "0", "0", "1", ".mp3">>
    /\ artifacts[2].name = <<"chunk_", "1", "0", "0", "1", ".mp3">>

\* C22: a convert call that has ended returned the output directory
\* exactly when its work set was not empty, and returned nothing exactly
\* when no pages were loaded or the work set was empty.
C22_ReturnsDirIffWorkSetNonEmpty ==
    (pc \in {"done", "raised"} /\ fileAtStart.readable /\ ~resume) =>
        /\ result = "dir" <=> work # <<>>
        /\ result = "None" <=> (npages = 0 \/ work = <<>>)

\* C23: in parallel dispatch the number of synthesis calls in progress
\* is at no moment more than the smaller of batch_size and the number of
\* processors.
C23_RunningAtMostPoolSize ==
    batch > 1 =>
        /\ Cardinality(Running) <= batch
        /\ Cardinality(Running) <= CpuCount

C23_Witness ==
    /\ pc = "dispatch" /\ batch > CpuCount
    /\ Cardinality(Running) = CpuCount
    /\ Pending # {}

\* The number of synthesis calls made for the index i in the current call.
Calls(i) == Cardinality({k \in 1..Len(dispatched) : dispatched[k] = i})

\* C24: in either dispatch mode no index is given to the synthesizer more
\* than once in a run and none outside the work set, and when the
\* processing method has returned every work-set index has been given to
\* it exactly once, whatever the units returned.
C24_EachUnitCalledOnce ==
    /\ \A i \in Indices : Calls(i) <= 1
    /\ SeqToSet(dispatched) \subseteq SeqToSet(work)
    /\ saved.called => \A k \in 1..Len(work) : Calls(work[k]) = 1

C24_Witness ==
    /\ saved.called /\ batch > 1
    /\ Len(work) >= 3
    /\ res[1] = "None" /\ res[2] = "path" /\ res[3] = "None"
    /\ \A k \in 1..Len(work) : Calls(work[k]) = 1

\* C25: with batch_size <= 1 no two calls overlap, the calls are made in
\* ascending order of the global index, each after the one before it has
\* returned, and a call that returns no artifact is followed by the calls
\* for the rest of the work set.
C25_SequentialInAscendingOrder ==
    batch <= 1 =>
        /\ Running = {}
        /\ Ascending(dispatched)
        /\ \A k \in 1..Len(res) : Finished(res[k]) <=> k <= Len(dispatched)
        /\ \A k \in 1..Len(dispatched) : dispatched[k] = work[k]
        /\ saved.called => dispatched = work

C25_Witness ==
    /\ batch <= 1 /\ saved.called
    /\ Len(work) >= 3
    /\ res[1] = "None" /\ res[2] = "path"
    /\ dispatched = work

\* C26: in a run with resume=true a synthesis call is made only after the
\* ledger was read and the chunk list filtered by it: whenever a call has
\* been made, the file was read if it exists, the work set is the chunk
\* list without the indices the ledger held at the start, and no call was
\* made for an index the ledger held.
C26_LoadFilterDispatch ==
    (resume /\ dispatched # <<>>) =>
        /\ fileAtStart.kind # "absent" => io.reads >= 1
        /\ SeqToSet(work) = ChunkSet(npages) \ Persisted(fileAtStart, TheBook)
        /\ SeqToSet(dispatched) \cap Persisted(fileAtStart, TheBook) = {}

C26_Witness ==
    /\ resume /\ pc = "dispatch"
    /\ Persisted(fileAtStart, TheBook) \cap ChunkSet(npages) # {}
    /\ Len(dispatched) = 1
    /\ io.reads = 1

\* C27 as stated: a job that returned the output directory read the
\* ledger file once and wrote it once.
C27_ReadOnceWrittenOnce ==
    (pc = "done" /\ result = "dir" /\ fileAtStart.kind = "object"
     /\ fileAtStart.readable)
    => io.reads = 1 /\ io.write # "no"

\* C27 amended: a job opens the ledger file for reading at most once in
\* the load, before dispatch and only with resume=true, and at most once
\* more in the save, after dispatch; it opens it for writing at most once,
\* in the save; while a unit is pending or running the file is neither
\* read nor written.
C27_LedgerAccessOutsideDispatch ==
    /\ pc = "dispatch" =>
          /\ io.reads = (IF resume /\ fileAtStart.kind # "absent" THEN 1 ELSE 0)
          /\ io.write = "no"
          /\ file = fileAtStart
    /\ (pc = "done" /\ result = "dir") =>
          /\ io.reads = (IF resume /\ fileAtStart.kind # "absent" THEN 1 ELSE 0)
                          + (IF fileAtStart.kind # "absent" THEN 1 ELSE 0)
          /\ io.write # "no"
    /\ io.reads <= 2
    /\ io.write # "no" => saved.called

C27_Witness ==
    /\ pc = "done" /\ result = "dir" /\ resume /\ batch > 1
    /\ io.reads = 2 /\ io.write = "ok"
    /\ file # fileAtStart

\* The chunks one page of the document object contributes in the latest
\* call.
PageChunkList(p) ==
    IF p.chunks # <<>> THEN p.chunks
    ELSE SplitIntoChunks(p.content, mapping.max_text_length)

\* The number of chunks of the pages before the j-th.
RECURSIVE Offset(_)
Offset(j) ==
    IF j <= 1 THEN 0 ELSE Offset(j - 1) + Len(PageChunkList(pages[j - 1]))

\* C28: the global chunk list holds the chunks of the pages of the
\* document object in page order and, within a page, in chunk order, the
\* chunks of a page being its pre-computed chunks when it has any and
\* otherwise the segmentation of its content; the chunk at position i,
\* counted from 0, carries the index i.
C28_ChunkListIsPagewiseConcatenation ==
    mapping.valid =>
        /\ Len(mapping.chunks) = Offset(Len(pages) + 1)
        /\ \A j \in 1..Len(pages) :
              \A i \in 1..Len(PageChunkList(pages[j])) :
                  mapping.chunks[Offset(j) + i] = PageChunkList(pages[j])[i]
        /\ Len(mapping.all_chunks_data) = Len(mapping.chunks)
        /\ \A k \in 1..Len(mapping.all_chunks_data) :
              /\ mapping.all_chunks_data[k].index = k - 1
              /\ mapping.all_chunks_data[k].chunk = mapping.chunks[k]

C28_Witness ==
    /\ mapping.valid /\ ~mapping.reused
    /\ Len(pages) = 2
    /\ pages[1].chunks # <<>> /\ pages[2].chunks = <<>>
    /\ Len(mapping.all_chunks_data) = 4
    /\ mapping.all_chunks_data[4].index = 3

SingleSpaced(t) == t # <<>> /\ Collapsed(t) = t

\* C30: a sentence joins the current chunk exactly when the chunk it gives
\* (the content, one space, the sentence) is not longer than max_length;
\* so a text of single-spaced sentences that is not longer than max_length
\* comes back as one chunk equal to the text.
C30_FittingTextIsOneChunk ==
    (/\ segmented /\ max_length >= 1
     /\ SingleSpaced(text) /\ SentenceTerminated(text)
     /\ Len(text) <= max_length)
    => chunks = <<text>>

\* No two whitespace characters of the text are adjacent.
NoWhitespaceRuns(t) ==
    \A k \in 1..(Len(t) - 1) : ~(IsSpace(t[k]) /\ IsSpace(t[k + 1]))

RECURSIVE PiecesCutAtWhitespace(_, _, _)
\* The pieces of the sentence s from the 0-based position start on, cut as
\* C31 says: the rest of the sentence when it fits; otherwise a cut at the
\* last whitespace of the window of n characters when it holds one, the
\* next piece beginning behind that whitespace, and a cut exactly behind
\* the window otherwise, the next piece beginning there.
PiecesCutAtWhitespace(s, start, n) ==
    IF start >= Len(s) THEN <<>>
    ELSE IF Len(s) - start <= n THEN <<Strip(Slice(s, start, Len(s)))>>
    ELSE LET W == {i \in start..(start + n - 1) : IsSpace(s[i + 1])}
             b == CHOOSE i \in W : \A j \in W : j <= i
         IN IF W # {}
            THEN <<Strip(Slice(s, start, b))>>
                     \o PiecesCutAtWhitespace(s, b + 1, n)
            ELSE <<Slice(s, start, start + n)>>
                     \o PiecesCutAtWhitespace(s, start + n, n)

\* C31: when a sentence is longer than max_length, the chunk in progress
\* comes out first, then the pieces of the sentence, each of at most
\* max_length characters, cut at the last whitespace of the window when
\* the window holds one and exactly at the boundary otherwise, until the
\* whole sentence is consumed.  Stated for a text that ends with a long
\* sentence, alone or behind one sentence that fits.
C31_LongSentenceCutAtWhitespace ==
    LET S == Sentences(text)
    IN (/\ segmented /\ max_length >= 1
        /\ NoWhitespaceRuns(text)
        /\ Len(S) \in {1, 2}
        /\ Len(S[Len(S)]) > max_length
        /\ Len(S) = 2 => Len(S[1]) <= max_length)
       => chunks = (IF Len(S) = 2 THEN <<S[1]>> ELSE <<>>)
                       \o PiecesCutAtWhitespace(S[Len(S)], 0, max_length)

RECURSIVE SentencesByBoundary(_, _, _)
\* The sentences of the stripped, non-blank text t as C32 says: a sentence
\* ends at every terminator that is followed by whitespace, and at the end
\* of the text.  k is the position looked at, from the position where the
\* sentence in progress began; a sentence is taken without the whitespace
\* around it.
SentencesByBoundary(t, k, from) ==
    IF k >= Len(t) THEN <<Strip(SubSeq(t, from, Len(t)))>>
    ELSE IF t[k] \in Terminators /\ IsSpace(t[k + 1])
    THEN <<Strip(SubSeq(t, from, k))>> \o SentencesByBoundary(t, k + 1, k + 1)
    ELSE SentencesByBoundary(t, k + 1, from)

\* No two adjacent sentences of the list fit together, with the space
\* between them, within n characters.
NoTwoFitTogether(S, n) ==
    \A k \in 1..(Len(S) - 1) : Len(S[k]) + 1 + Len(S[k + 1]) > n

\* C32 as stated: the sentences end exactly where '.', '!' or '?' is
\* followed by whitespace, the punctuation staying with its sentence, and
\* when no two adjacent sentences fit together within max_length the
\* result is one chunk per sentence, in input order.  Looked at where the
\* chunks hold every word of the text, so that no character was lost.
C32_OneChunkPerSentence ==
    (/\ segmented /\ max_length >= 1 /\ Strip(text) # <<>>
     /\ JoinWithSpaces(chunks) = Collapsed(text)
     /\ NoTwoFitTogether(SentencesByBoundary(Strip(text), 1, 1), max_length))
    => chunks = SentencesByBoundary(Strip(text), 1, 1)

\* C32, amended: the same, for a text none of whose sentences is longer
\* than max_length.
C32_OneChunkPerFittingSentence ==
    LET S == SentencesByBoundary(Strip(text), 1, 1)
    IN (/\ segmented /\ max_length >= 1 /\ Strip(text) # <<>>
        /\ \A k \in 1..Len(S) : Len(S[k]) <= max_length
        /\ NoTwoFitTogether(S, max_length))
       => chunks = S

C32_Witness ==
    /\ segmented /\ max_length >= 1
    /\ Len(chunks) = 2
    /\ chunks[1][Len(chunks[1])] = "!"
    /\ chunks[2][Len(chunks[2])] = "?"
    /\ chunks = SentencesByBoundary(Strip(text), 1, 1)
    /\ \A k \in 1..2 : Len(chunks[k]) <= max_length
    /\ NoTwoFitTogether(chunks, max_length)

\* The 0-based positions above 0 and inside the first max_length
\* characters of the text that hold a period.
PeriodsInside == {i \in 1..(max_length - 1) : i < Len(text) /\ text[i + 1] = "."}

\* C33: truncate_text returns the text unchanged when its length is at
\* most max_length; otherwise a prefix of at most max_length characters:
\* the one that ends at the last period found at a position above 0 inside
\* the first max_length characters when there is one, and the first
\* max_length characters exactly when there is none.
C33_TruncateAtLastPeriod ==
    truncated.done =>
        IF Len(text) <= max_length THEN truncated.value = text
        ELSE /\ Len(truncated.value) <= max_length
             /\ truncated.value = SubSeq(text, 1, Len(truncated.value))
             /\ IF PeriodsInside # {}
                THEN /\ Len(truncated.value) - 1 \in PeriodsInside
                     /\ \A i \in PeriodsInside : i <= Len(truncated.value) - 1
                ELSE Len(truncated.value) = max_length

C33_Witness ==
    /\ truncated.done
    /\ Len(text) > max_length
    /\ text[1] = "."
    /\ PeriodsInside # {}
    /\ Len(truncated.value) < max_length

\* C34: when two jobs for different book ids share the ledger file and
\* their saves interleave in any way, each save a read of the whole file
\* and then a rewrite of it, the file holds the entries of both jobs once
\* both have finished.  Looked at where the file was absent or a readable
\* ledger at the start and both writes went well.
C34_BothEntriesAfterBothSaves ==
    (/\ fileAtStart.kind \in {"absent", "object"} /\ fileAtStart.readable
     /\ \A b \in Books : jobs[b].pc = "done" /\ jobs[b].write = "ok")
    => /\ file.kind = "object"
       /\ \A b \in Books : file.entries[b] = Ints(Sorted(jobs[b].list))

\* C35: for the same work set and the same adapter outcome per index, the
\* serial dispatch (batch_size <= 1) and the parallel dispatch
\* (batch_size > 1) lead to the same set saved to the ledger, the same
\* ledger file and the same return value of convert.
C35_SerialAndParallelAgree ==
    twin.done => twin.serial = twin.parallel

C35_Witness ==
    /\ twin.done
    /\ twin.outOfOrder
    /\ Len(twin.work) >= 2
    /\ twin.completed # <<>>
    /\ \E k \in 1..Len(twin.outcome) : twin.outcome[k] = "artifact"
    /\ \E k \in 1..Len(twin.outcome) : twin.outcome[k] = "raised"
    /\ twin.serial.result = "dir"
    /\ twin.serial = twin.parallel

\* C36: two documents with different file names, for example the same
\* base name with different extensions, never share a ledger key or an
\* output directory, so the progress recorded for one never makes a chunk
\* of the other be skipped.  Looked at for names that begin with a letter.
C36_DistinctNamesDistinctKeys ==
    (/\ docs # <<>>
     /\ docs[1].started /\ docs[2].started
     /\ docs[1].file_name[1] # "." /\ docs[2].file_name[1] # "."
     /\ docs[1].file_name # docs[2].file_name)
    => /\ docs[1].book_id # docs[2].book_id
       /\ docs[1].book_output_dir # docs[2].book_output_dir

\* The chunks of the first k pages of the document file.
FirstPagesChunks(k, max_text_length) ==
    PrepareTextChunks(SubSeq(bookPages, 1, Min(k, Len(bookPages))),
                      max_text_length)

\* C37: the progress saved by a run capped at max_pages = k stays valid
\* for a later run with a larger cap or none and the same max_text_length:
\* every index below the number of chunks of the first k pages stands for
\* the same chunk text in both runs.  Looked at where the loader read the
\* file in both runs.
C37_CappedRunIndicesStayValid ==
    (/\ mapping.valid /\ mappingBefore.valid
     /\ mapping.max_text_length = mappingBefore.max_text_length
     /\ mappingBefore.loaded >= 1 /\ mapping.loaded >= 1
     /\ mappingBefore.max_pages >= 1
     /\ mapping.max_pages = 0 \/ mapping.max_pages >= mappingBefore.max_pages)
    => \A i \in 1..Len(FirstPagesChunks(mappingBefore.max_pages,
                                        mapping.max_text_length)) :
          /\ i <= Len(mappingBefore.chunks)
          /\ i <= Len(mapping.chunks)
          /\ mapping.chunks[i] = mappingBefore.chunks[i]

\* C38: in the while loop of the forced split, for every sentence and
\* every max_length >= 1, start is strictly greater after every iteration,
\* also when the break point is the first character of the window, and
\* the loop comes to its end.
C38_ForcedSplitTerminates ==
    /\ [][loop'.start > loop.start]_vars
    /\ <>(loop.start >= Len(loop.sentence))

C38_Witness ==
    /\ loop.start >= Len(loop.sentence)
    /\ loop.brokeAtStart
    /\ loop.iterations >= 3
    /\ loop.max_length >= 2
====
